---- MODULE Spec2Model ----
(***************************************************************************)
(* BecknProcessor (src/src/BecknProcessor.ts): the schema-to-skeleton      *)
(* builder, the static overlay applier, the dynamic resolver registry and  *)
(* its asynchronous orchestration, and the validation gate.                *)
(*                                                                         *)
(* JavaScript objects are references: the model keeps an explicit heap so  *)
(* that the shallow copies of lines 111 and 147, and the references the    *)
(* builder and the applier store into the instance, alias as in the code.  *)
(***************************************************************************)
EXTENDS Integers, Sequences, FiniteSets, TLC

VARIABLES
  heap,              \* the JavaScript heap: a sequence of objects, a reference is an index
  usecaseSchema,     \* this.usecaseSchema: reference to the root schema object
  schemaTree,        \* the schema as compiled by ajv at construction (line 48)
  staticData,        \* this.staticData: the loaded overlay, in insertion order
  parsedUsecase,     \* this.parsedUsecase
  dynamicResolvers,  \* this.dynamicResolvers
  calls,             \* the activations of dynamicResolve
  lastStatic,        \* outcome of the latest staticResolve call
  lastGet,           \* outcome of the latest getParsedUsecase call
  skel,              \* the skeleton as line 134 left it (snapshot)
  staticStage,       \* the instance as the latest successful staticResolve left it (snapshot)
  applied,           \* snapshots after each application of the overlay
  construction,      \* outcome of new BecknProcessor(...): built, or what it threw
  latest             \* at each address, the value dynamicResolve wrote there last

vars == <<heap, usecaseSchema, schemaTree, staticData, parsedUsecase,
          dynamicResolvers, calls, lastStatic, lastGet, skel, staticStage, applied,
          construction, latest>>

(***************************************************************************)
(* JavaScript values.  A primitive carries its kind and its text; a        *)
(* reference carries the index of its object in the heap.  The string      *)
(* constants of the inputs are at most one character long (so that         *)
(* indexing and spreading them is exact); the longer strings are the type  *)
(* names of the schema.                                                    *)
(***************************************************************************)
Undef == [t |-> "undef", s |-> "", id |-> 0]
Null == [t |-> "null", s |-> "", id |-> 0]
Str(s) == [t |-> "str", s |-> s, id |-> 0]
Num(s) == [t |-> "num", s |-> s, id |-> 0]
Bool(s) == [t |-> "bool", s |-> s, id |-> 0]
Ref(i) == [t |-> "ref", s |-> "", id |-> i]

Nullish(v) == v.t \in {"undef", "null"}

Truthy(v) ==
  \/ v.t = "ref"
  \/ v.t = "str" /\ v.s # ""
  \/ v.t = "num" /\ v.s # "0"
  \/ v.t = "bool" /\ v.s = "true"

NoFields == [k \in {} |-> Undef]
NewObj == [arr |-> FALSE, f |-> NoFields]
Put(f, k, v) == [x \in (DOMAIN f) \cup {k} |-> IF x = k THEN v ELSE f[x]]

\* a fixed enumeration order of property names
AllKeys == <<"0", "", "a", "b", "c", "type", "properties", "items", "required",
             "oneOf", "additionalProperties", "const">>
KeySeq(S) == SelectSeq(AllKeys, LAMBDA k : k \in S)

CharAt0(s) ==
  CASE s = "object" -> "o"
    [] s = "array" -> "a"
    [] s = "string" -> "s"
    [] s = "number" -> "n"
    [] OTHER -> s

\* v[k] for a value v that is neither undefined nor null
GetProp(h, v, k) ==
  IF v.t = "ref"
    THEN IF k \in DOMAIN h[v.id].f THEN h[v.id].f[k] ELSE Undef
    ELSE IF v.t = "str" /\ v.s # "" /\ k = "0" THEN Str(CharAt0(v.s)) ELSE Undef

\* obj[k] = val on the object a reference names
SetProp(h, id, k, val) == [h EXCEPT ![id].f = Put(@, k, val)]

\* the own enumerable properties {...v} copies
SpreadFields(h, v) ==
  IF v.t = "ref" THEN h[v.id].f
  ELSE IF v.t = "str" /\ v.s # "" THEN [k \in {"0"} |-> Str(CharAt0(v.s))]
  ELSE NoFields

\* Object.entries(v): the keys, in the enumeration order
EntryKeys(h, v) == KeySeq(DOMAIN SpreadFields(h, v))

(***************************************************************************)
(* Plain (heap-free) trees: the structure a JavaScript value denotes.      *)
(***************************************************************************)
RECURSIVE DeepVal(_, _)
DeepVal(h, v) ==
  IF v.t = "ref"
    THEN [t |-> IF h[v.id].arr THEN "arr" ELSE "obj", s |-> "",
          kids |-> [k \in DOMAIN h[v.id].f |-> DeepVal(h, h[v.id].f[k])]]
    ELSE [t |-> v.t, s |-> v.s, kids |-> NoFields]

TStr(s) == [t |-> "str", s |-> s, kids |-> NoFields]
TUndef == [t |-> "undef", s |-> "", kids |-> NoFields]
TObj(f) == [t |-> "obj", s |-> "", kids |-> f]
TArr(f) == [t |-> "arr", s |-> "", kids |-> f]
IsContainer(tv) == tv.t \in {"obj", "arr"}

\* the tree at a sequence of segments, TUndef where the path leaves the tree
RECURSIVE TreeAt(_, _)
TreeAt(tv, parts) ==
  IF parts = <<>> THEN tv
  ELSE IF IsContainer(tv) /\ Head(parts) \in DOMAIN tv.kids
    THEN TreeAt(tv.kids[Head(parts)], Tail(parts))
    ELSE TUndef

(***************************************************************************)
(* Schema trees (type JsonSchemaObject, lines 8-29).  An optional field    *)
(* is a sequence of length 0 or 1.                                         *)
(***************************************************************************)
Node(type, const, properties, items, required, addl) ==
  [type |-> type, const |-> const, properties |-> properties, items |-> items,
   required |-> required, additionalProperties |-> addl]

Leaf(type) == Node(type, <<>>, <<>>, <<>>, <<>>, <<>>)
ConstLeaf(type, c) == Node(type, <<Str(c)>>, <<>>, <<>>, <<>>, <<>>)
ObjOf(props) == Node("object", <<>>, <<props>>, <<>>, <<>>, <<>>)
ArrOf(item) == Node("array", <<>>, <<>>, <<item>>, <<>>, <<>>)

\* the schema object graph the caller hands to the constructor
RECURSIVE AllocSchema(_, _), AllocProps(_, _, _)
AllocProps(h, props, ks) ==
  IF ks = <<>> THEN [h |-> h, f |-> NoFields]
  ELSE LET c == AllocSchema(h, props[Head(ks)])
           r == AllocProps(c.h, props, Tail(ks))
       IN [h |-> r.h, f |-> Put(r.f, Head(ks), c.v)]

AllocSchema(h, n) ==
  LET f0 == [k \in {"type"} |-> Str(n.type)]
      f1 == IF Len(n.const) = 1 THEN Put(f0, "const", n.const[1]) ELSE f0
      f2 == IF Len(n.additionalProperties) = 1
              THEN Put(f1, "additionalProperties", n.additionalProperties[1]) ELSE f1
      p == IF Len(n.properties) = 1
             THEN AllocProps(h, n.properties[1], KeySeq(DOMAIN n.properties[1]))
             ELSE [h |-> h, f |-> NoFields]
      hp == IF Len(n.properties) = 1 THEN Append(p.h, [arr |-> FALSE, f |-> p.f]) ELSE h
      f3 == IF Len(n.properties) = 1 THEN Put(f2, "properties", Ref(Len(hp))) ELSE f2
      i == IF Len(n.items) = 1 THEN AllocSchema(hp, n.items[1]) ELSE [h |-> hp, v |-> Undef]
      f4 == IF Len(n.items) = 1 THEN Put(f3, "items", i.v) ELSE f3
      hr == IF Len(n.required) = 1
              THEN Append(i.h, [arr |-> TRUE,
                     f |-> IF Len(n.required[1]) = 0 THEN NoFields
                           ELSE [k \in {"0"} |-> Str(n.required[1][1])]])
              ELSE i.h
      f5 == IF Len(n.required) = 1 THEN Put(f4, "required", Ref(Len(hr))) ELSE f4
      hn == Append(hr, [arr |-> FALSE, f |-> f5])
  IN [h |-> hn, v |-> Ref(Len(hn))]

(***************************************************************************)
(* processSchemaWithConst (lines 77-108).  The result is the heap after    *)
(* the call, the value returned, and whether a TypeError was thrown.       *)
(***************************************************************************)
Threw(h) == [h |-> h, v |-> Undef, err |-> TRUE]
Returned(h, v) == [h |-> h, v |-> v, err |-> FALSE]

\* lines 97-107: the descriptor returned for a node without const
placeholder(h, schema) ==
  LET properties == GetProp(h, schema, "properties")
      items == GetProp(h, schema, "items")
      required == GetProp(h, schema, "required")
      oneOf == GetProp(h, schema, "oneOf")
      addl == GetProp(h, schema, "additionalProperties")
      f0 == [k \in {"type"} |-> GetProp(h, schema, "type")]
      f1 == IF Truthy(properties) THEN Put(f0, "properties", properties) ELSE f0
      f2 == IF Truthy(items) THEN Put(f1, "items", items) ELSE f1
      f3 == IF Truthy(required) THEN Put(f2, "required", required) ELSE f2
      f4 == IF Truthy(oneOf) THEN Put(f3, "oneOf", oneOf) ELSE f3
      f5 == IF addl.t # "undef" THEN Put(f4, "additionalProperties", addl) ELSE f4
      h1 == Append(h, [arr |-> FALSE, f |-> f5])
  IN Returned(h1, Ref(Len(h1)))

\* a builder that tests the constant for truthiness
hasConstTruthy(h, schema) == Truthy(GetProp(h, schema, "const"))

\* line 79: schema.const !== undefined
hasConst(h, schema) == GetProp(h, schema, "const").t # "undef"

\* line 84
isObjectWithProperties(h, schema) ==
  GetProp(h, schema, "type") = Str("object") /\ Truthy(GetProp(h, schema, "properties"))

\* a builder without the array case
isArrayWithItemsNever(h, schema) == FALSE

\* line 93
isArrayWithItems(h, schema) ==
  GetProp(h, schema, "type") = Str("array") /\ Truthy(GetProp(h, schema, "items"))

RECURSIVE processSchemaWithConst(_, _), processProperties(_, _, _)
\* lines 85-88: result[key] = processSchemaWithConst(value), for every entry
processProperties(h, properties, ks) ==
  IF ks = <<>> THEN [h |-> h, f |-> NoFields, err |-> FALSE]
  ELSE LET c == processSchemaWithConst(h, GetProp(h, properties, Head(ks)))
       IN IF c.err THEN [h |-> c.h, f |-> NoFields, err |-> TRUE]
          ELSE LET r == processProperties(c.h, properties, Tail(ks))
               IN [h |-> r.h, f |-> Put(r.f, Head(ks), c.v), err |-> r.err]

processSchemaWithConst(h, schema) ==
  IF Nullish(schema) THEN Threw(h)
  ELSE IF hasConst(h, schema) THEN Returned(h, GetProp(h, schema, "const"))
  ELSE IF isObjectWithProperties(h, schema)
    THEN LET properties == GetProp(h, schema, "properties")
             r == processProperties(h, properties, EntryKeys(h, properties))
             h1 == Append(r.h, [arr |-> FALSE, f |-> r.f])
         IN IF r.err THEN Threw(r.h) ELSE Returned(h1, Ref(Len(h1)))
  ELSE IF isArrayWithItems(h, schema)
    THEN LET r == processSchemaWithConst(h, GetProp(h, schema, "items"))
             h1 == Append(r.h, [arr |-> TRUE, f |-> [k \in {"0"} |-> r.v]])
         IN IF r.err THEN Threw(r.h) ELSE Returned(h1, Ref(Len(h1)))
  ELSE placeholder(h, schema)

(***************************************************************************)
(* Addresses.  An address is a string; the model keeps it as the sequence  *)
(* of its tokens, a token being "." or a maximal run of other characters.  *)
(***************************************************************************)
\* path.split('.') (lines 114, 162)
RECURSIVE split(_)
split(path) ==
  IF path = <<>> THEN <<"">>
  ELSE IF Head(path) = "." THEN <<"">> \o split(Tail(path))
  ELSE LET rest == split(Tail(path))
       IN <<Head(path) \o Head(rest)>> \o Tail(rest)

(***************************************************************************)
(* applyYamlValues (lines 110-131).                                        *)
(***************************************************************************)
\* lines 118-127 for one entry, from the container `current` on
RECURSIVE setYamlValue(_, _, _, _)
setYamlValue(h, current, pathParts, value) ==
  IF Len(pathParts) = 1
    THEN \* line 127; assigning a property of a primitive throws in strict mode
         IF current.t = "ref"
           THEN [h |-> SetProp(h, current.id, pathParts[1], value), err |-> FALSE]
           ELSE [h |-> h, err |-> TRUE]
    ELSE LET got == GetProp(h, current, pathParts[1])
             h1 == Append(h, NewObj)
             fresh == Ref(Len(h1))
         IN IF Truthy(got) THEN setYamlValue(h, got, Tail(pathParts), value)
            ELSE IF current.t = "ref"
              THEN setYamlValue(SetProp(h1, current.id, pathParts[1], fresh), fresh,
                                Tail(pathParts), value)
              ELSE [h |-> h, err |-> TRUE]

\* lines 113-128: the entries of staticData from position i on
RECURSIVE applyEntries(_, _, _, _)
applyEntries(h, result, data, i) ==
  IF i > Len(data) THEN [h |-> h, err |-> FALSE]
  ELSE LET r == setYamlValue(h, result, split(data[i].path), data[i].value)
       IN IF r.err THEN r ELSE applyEntries(r.h, result, data, i + 1)

applyYamlValues(h, instance, data) ==
  LET h1 == Append(h, [arr |-> FALSE, f |-> SpreadFields(h, instance)])
      result == Ref(Len(h1))
      r == applyEntries(h1, result, data, 1)
  IN [h |-> r.h, v |-> result, err |-> r.err]

(***************************************************************************)
(* The validation gate: schemaValidator, compiled from the schema at       *)
(* construction (lines 45-48) and run by getParsedUsecase (line 56).  The  *)
(* validator is the JSON Schema reading of type, const, properties,        *)
(* required, items and additionalProperties; an error names the failing    *)
(* path and keyword.                                                       *)
(***************************************************************************)
typeMatches(type, tv) ==
  CASE type = "object" -> tv.t = "obj"
    [] type = "array" -> tv.t = "arr"
    [] type = "string" -> tv.t = "str"
    [] type \in {"number", "integer"} -> tv.t = "num"
    [] type = "boolean" -> tv.t = "bool"
    [] OTHER -> tv.t = "null"

Present(tv, k) == k \in DOMAIN tv.kids /\ tv.kids[k].t # "undef"

RECURSIVE schemaErrors(_, _, _)
schemaErrors(n, tv, at) ==
  LET props == IF Len(n.properties) = 1 THEN n.properties[1] ELSE NoFields
  IN  (IF typeMatches(n.type, tv) THEN {} ELSE {[path |-> at, keyword |-> "type"]})
      \cup (IF Len(n.const) = 1 /\ tv # [t |-> n.const[1].t, s |-> n.const[1].s, kids |-> NoFields]
              THEN {[path |-> at, keyword |-> "const"]} ELSE {})
      \cup (IF tv.t = "obj"
              THEN UNION {schemaErrors(props[k], tv.kids[k], at \o <<k>>) :
                            k \in {x \in DOMAIN props : Present(tv, x)}}
              ELSE {})
      \cup (IF tv.t = "obj" /\ Len(n.required) = 1
                /\ \E i \in 1..Len(n.required[1]) : ~Present(tv, n.required[1][i])
              THEN {[path |-> at, keyword |-> "required"]} ELSE {})
      \cup (IF tv.t = "arr" /\ Len(n.items) = 1 /\ Present(tv, "0")
              THEN schemaErrors(n.items[1], tv.kids["0"], at \o <<"0">>) ELSE {})
      \cup (IF tv.t = "obj" /\ n.additionalProperties = <<Bool("false")>>
                /\ \E k \in DOMAIN tv.kids : k \notin DOMAIN props
              THEN {[path |-> at, keyword |-> "additionalProperties"]} ELSE {})

schemaValidator(n, h, v) == schemaErrors(n, DeepVal(h, v), <<>>)

(***************************************************************************)
(* dynamicResolve (lines 146-173): writing one resolved value.             *)
(***************************************************************************)
\* a writer that fills a leaf only where none is set (??= for =)
RECURSIVE setDynamicValueIfUnset(_, _, _, _)
setDynamicValueIfUnset(h, current, pathParts, value) ==
  IF Nullish(current) THEN [h |-> h, err |-> TRUE]
  ELSE IF Len(pathParts) = 1
    THEN IF current.t = "ref"
           THEN [h |-> IF Nullish(GetProp(h, current, pathParts[1]))
                         THEN SetProp(h, current.id, pathParts[1], value) ELSE h,
                 err |-> FALSE]
           ELSE [h |-> h, err |-> TRUE]
    ELSE setDynamicValueIfUnset(h, GetProp(h, current, pathParts[1]), Tail(pathParts), value)

\* lines 162-169, from the container `current` on: no intermediate is created
RECURSIVE setDynamicValue(_, _, _, _)
setDynamicValue(h, current, pathParts, value) ==
  IF Nullish(current) THEN [h |-> h, err |-> TRUE]
  ELSE IF Len(pathParts) = 1
    THEN IF current.t = "ref"
           THEN [h |-> SetProp(h, current.id, pathParts[1], value), err |-> FALSE]
           ELSE [h |-> h, err |-> TRUE]
    ELSE setDynamicValue(h, GetProp(h, current, pathParts[1]), Tail(pathParts), value)

(***************************************************************************)
(* Inputs.                                                                 *)
(***************************************************************************)
MaxResolvers == 2
MaxCalls == 2

\* the shape of the schemas of the tests: nested objects, a const, string leaves
SchemaPlain ==
  ObjOf([a |-> ObjOf([b |-> Leaf("string"), c |-> ConstLeaf("string", "k")]),
         b |-> Leaf("string")])
SchemaRequired ==
  Node("object", <<>>,
       <<[a |-> ObjOf([b |-> Leaf("string")]), b |-> Leaf("string")]>>,
       <<>>, <<<<"b">>>>, <<>>)

OverlayFlat ==
  <<[path |-> <<"a", ".", "b">>, value |-> TStr("s")],
    [path |-> <<"b">>, value |-> TStr("s")]>>
OverlayNested ==
  <<[path |-> <<"a">>, value |-> TObj([b |-> TStr("s"), c |-> TStr("k")])],
    [path |-> <<"b">>, value |-> TStr("s")]>>
OverlayPartial ==
  <<[path |-> <<"a", ".", "b">>, value |-> TStr("s")]>>

Inputs ==
  <<[schema |-> SchemaPlain, overlay |-> OverlayFlat],
    [schema |-> SchemaPlain, overlay |-> OverlayNested],
    [schema |-> SchemaRequired, overlay |-> OverlayPartial]>>

\* what a caller registers: an address and a source (an API URL or a function)
ResolverInputs ==
  {[path |-> <<"b">>, resolver |-> "function"],
   [path |-> <<"a", ".", "b">>, resolver |-> "url"],
   [path |-> <<"c", ".", "a">>, resolver |-> "function"]}

\* what a source resolves to: every invocation of a source yields a value of
\* its own, so that every write can be told from every other and from the
\* static values
Letters == <<"p", "q", "r", "t", "u", "v", "w", "x", "y", "z", "d", "e", "f", "g", "h", "j">>
resolvedValue(c, i) == Str(Letters[(c - 1) * MaxResolvers + i])

(***************************************************************************)
(* Construction (lines 36-53).                                             *)
(***************************************************************************)
\* the object graph of a parsed YAML value
RECURSIVE AllocTree(_, _), AllocKids(_, _, _)
AllocKids(h, kids, ks) ==
  IF ks = <<>> THEN [h |-> h, f |-> NoFields]
  ELSE LET c == AllocTree(h, kids[Head(ks)])
           r == AllocKids(c.h, kids, Tail(ks))
       IN [h |-> r.h, f |-> Put(r.f, Head(ks), c.v)]
AllocTree(h, tv) ==
  IF IsContainer(tv)
    THEN LET r == AllocKids(h, tv.kids, KeySeq(DOMAIN tv.kids))
             h1 == Append(r.h, [arr |-> tv.t = "arr", f |-> r.f])
         IN [h |-> h1, v |-> Ref(Len(h1))]
    ELSE [h |-> h, v |-> [t |-> tv.t, s |-> tv.s, id |-> 0]]

\* loadYamlFile (lines 68-75): the mapping yaml.load returns, entry by entry
RECURSIVE loadYamlFile(_, _)
loadYamlFile(h, overlay) ==
  IF overlay = <<>> THEN [h |-> h, data |-> <<>>]
  ELSE LET c == AllocTree(h, Head(overlay).value)
           r == loadYamlFile(c.h, Tail(overlay))
       IN [h |-> r.h, data |-> <<[path |-> Head(overlay).path, value |-> c.v]>> \o r.data]

NoGet == [st |-> "none", v |-> Undef, message |-> "", validationErrors |-> {}]

\* no activation of dynamicResolve
NoCall ==
  [pc |-> "idle", template |-> Undef, i |-> 0, invoked |-> <<>>, written |-> <<>>,
   err |-> "", rejected |-> 0, result |-> Undef, solo |-> FALSE, fresh |-> FALSE,
   n0 |-> 0]

(***************************************************************************)
(* Garbage collection.  Object identity is observable only through         *)
(* aliasing, so after each operation the heap is cut down to the objects   *)
(* the program can still reach, numbered in the order a depth-first walk   *)
(* from the processor's fields and the live activations meets them.        *)
(***************************************************************************)
FieldVals(h, id) ==
  LET ks == KeySeq(DOMAIN h[id].f) IN [j \in 1..Len(ks) |-> h[id].f[ks[j]]]

RECURSIVE Reach(_, _, _)
Reach(h, order, todo) ==
  IF todo = <<>> THEN order
  ELSE LET v == Head(todo)
       IN IF v.t # "ref" \/ \E j \in 1..Len(order) : order[j] = v.id
            THEN Reach(h, order, Tail(todo))
            ELSE Reach(h, Append(order, v.id), FieldVals(h, v.id) \o Tail(todo))

Moved(order, v) ==
  IF v.t = "ref" THEN Ref(CHOOSE j \in 1..Len(order) : order[j] = v.id) ELSE v

\* the processor's state after an operation that leaves the heap h, the
\* instance pu, the activations cs and the outcome lg of getParsedUsecase
Commit(h, pu, cs, lg) ==
  LET roots == <<usecaseSchema>> \o [j \in 1..Len(staticData) |-> staticData[j].value]
                 \o <<pu>> \o [c \in 1..Len(cs) |-> cs[c].template] \o <<lg.v>>
  IN \E order \in {Reach(h, <<>>, roots)} :
     /\ heap' = [j \in 1..Len(order) |->
                   [arr |-> h[order[j]].arr,
                    f |-> [k \in DOMAIN h[order[j]].f |-> Moved(order, h[order[j]].f[k])]]]
     /\ usecaseSchema' = Moved(order, usecaseSchema)
     /\ staticData' = [j \in 1..Len(staticData) |->
                         [path |-> staticData[j].path,
                          value |-> Moved(order, staticData[j].value)]]
     /\ parsedUsecase' = Moved(order, pu)
     /\ calls' = [c \in 1..Len(cs) |-> [cs[c] EXCEPT !.template = Moved(order, @)]]
     /\ lastGet' = [lg EXCEPT !.v = Moved(order, @)]

\* new BecknProcessor(...) returned a processor, whose overlay was loaded
\* from a source holding the mapping overlay
Built(overlay) == [st |-> "built", message |-> "", cause |-> "", overlay |-> overlay]

\* the fields of the processor right after
\* new BecknProcessor(staticValuePath, usecaseSchema) returned
Fields(schema, overlay) ==
  LET sc == AllocSchema(<<>>, schema)
      sd == loadYamlFile(sc.h, overlay)
      h1 == Append(sd.h, NewObj)
  IN [heap |-> h1, usecaseSchema |-> sc.v, staticData |-> sd.data,
      parsedUsecase |-> Ref(Len(h1))]

\* the processor right after new BecknProcessor(staticValuePath, usecaseSchema)
Constructed(schema, overlay) ==
  LET fs == Fields(schema, overlay)
  IN /\ heap = fs.heap
     /\ usecaseSchema = fs.usecaseSchema
     /\ schemaTree = schema
     /\ staticData = fs.staticData
     /\ parsedUsecase = fs.parsedUsecase
     /\ dynamicResolvers = <<>>
     /\ calls = [c \in 1..MaxCalls |-> NoCall]
     /\ lastStatic = "none"
     /\ lastGet = NoGet
     /\ skel = TUndef
     /\ staticStage = TUndef
     /\ applied = <<>>
     /\ construction = Built(overlay)
     /\ latest = TObj(NoFields)

Init == \E i \in 1..Len(Inputs) : Constructed(Inputs[i].schema, Inputs[i].overlay)

\* the structure a primitive denotes
Prim(v) == [t |-> v.t, s |-> v.s, kids |-> NoFields]

\* the tree tv with val put at the segments sp
RECURSIVE TreePut(_, _, _)
TreePut(tv, sp, val) ==
  IF sp = <<>> THEN val
  ELSE LET below == IF IsContainer(tv) /\ Head(sp) \in DOMAIN tv.kids
                      THEN tv.kids[Head(sp)] ELSE TObj(NoFields)
           kids == IF IsContainer(tv) THEN tv.kids ELSE NoFields
       IN [t |-> IF IsContainer(tv) THEN tv.t ELSE "obj", s |-> "",
           kids |-> Put(kids, Head(sp), TreePut(below, Tail(sp), val))]

(***************************************************************************)
(* The operations.                                                         *)
(***************************************************************************)
\* every activation but c has seen the instance change under it
Disturbed(cs, c) ==
  [k \in 1..Len(cs) |->
     IF k = c THEN cs[k] ELSE [cs[k] EXCEPT !.solo = FALSE, !.fresh = FALSE]]

\* the instance is as the latest staticResolve left it
AtStaticStage ==
  lastStatic = "ok" /\ DeepVal(heap, parsedUsecase) = staticStage

\* staticResolve (lines 133-137)
staticResolve ==
  /\ \E b \in {processSchemaWithConst(heap, usecaseSchema)} :
     \E y \in {IF b.err THEN b ELSE applyYamlValues(b.h, b.v, staticData)} :
        IF b.err
          THEN /\ Commit(b.h, parsedUsecase, calls, NoGet)
               /\ lastStatic' = "threw"
               /\ UNCHANGED <<skel, staticStage, latest>>
          ELSE /\ Commit(y.h, IF y.err THEN b.v ELSE y.v, Disturbed(calls, 0), NoGet)
               /\ skel' = DeepVal(b.h, b.v)
               /\ staticStage' = IF y.err THEN staticStage ELSE DeepVal(y.h, y.v)
               /\ lastStatic' = IF y.err THEN "threw" ELSE "ok"
               /\ latest' = TObj(NoFields)
  /\ UNCHANGED <<schemaTree, dynamicResolvers, applied, construction>>

\* addDynamicResolver (lines 139-144)
addDynamicResolver(path, resolver) ==
  /\ Len(dynamicResolvers) < MaxResolvers
  /\ dynamicResolvers' = Append(dynamicResolvers, [path |-> path, resolver |-> resolver])
  /\ lastGet' = NoGet
  /\ UNCHANGED <<heap, usecaseSchema, schemaTree, staticData, parsedUsecase, calls,
                 lastStatic, skel, staticStage, applied, construction, latest>>

\* an accessor without the gate
getParsedUsecaseUnchecked(errors, instance) ==
  [st |-> "returned", v |-> instance, message |-> "", validationErrors |-> {}]

\* getParsedUsecase (lines 55-66): what the call does with the validator's verdict
getParsedUsecaseOutcome(errors, instance) ==
  IF errors # {}
    THEN [st |-> "threw", v |-> instance, message |-> "Invalid Data in Schema",
          validationErrors |-> errors]
    ELSE [st |-> "returned", v |-> instance, message |-> "", validationErrors |-> {}]

getParsedUsecase ==
  /\ lastGet' = getParsedUsecaseOutcome(schemaValidator(schemaTree, heap, parsedUsecase),
                                        parsedUsecase)
  /\ UNCHANGED <<heap, usecaseSchema, schemaTree, staticData, parsedUsecase,
                 dynamicResolvers, calls, lastStatic, skel, staticStage, applied,
                 construction, latest>>

(***************************************************************************)
(* dynamicResolve (lines 146-173).  An activation is suspended at the      *)
(* await of line 154 or 158 with the source of entry i invoked; it resumes *)
(* when that source settles.  invoked and written record, per activation,  *)
(* the entries whose source was invoked and the values written.            *)
(***************************************************************************)
\* line 149: the step of the array iterator after the body of entry i (0 at
\* the start), over the array as it is then
nextEntry(i, n) == IF i < n THEN <<i + 1>> ELSE <<>>

\* a loop that starts the sources of all remaining entries at once
advanceFanOut(call, n) ==
  IF call.i < n
    THEN [call EXCEPT !.pc = "awaiting", !.i = n,
                      !.invoked = @ \o [j \in 1..(n - call.i) |-> call.i + j]]
    ELSE [call EXCEPT !.pc = "done"]

\* a loop over the entries that were registered when the call started
advanceOverSnapshot(call, n) ==
  IF call.i < call.n0
    THEN [call EXCEPT !.pc = "awaiting", !.i = call.i + 1, !.invoked = Append(@, call.i + 1)]
    ELSE [call EXCEPT !.pc = "done"]

\* lines 149-159, 172-173: the iterator moves on; the source of the next entry
\* is invoked and awaited, or the loop ends and the call returns
advance(call, n) ==
  LET nx == nextEntry(call.i, n)
  IN IF nx = <<>>
       THEN [call EXCEPT !.pc = "done"]
       ELSE [call EXCEPT !.pc = "awaiting", !.i = nx[1], !.invoked = Append(@, nx[1])]

\* a loop that swallows the rejection and goes on with the next entry
afterRejectionSkips(call, n) ==
  LET nx == IF call.i < n THEN <<call.i + 1>> ELSE <<>>
  IN IF nx = <<>> THEN [call EXCEPT !.pc = "done"]
     ELSE [call EXCEPT !.pc = "awaiting", !.i = nx[1], !.invoked = Append(@, nx[1])]

\* lines 154, 158: the awaited source rejects; nothing catches it
afterRejection(call, n) == [call EXCEPT !.pc = "failed", !.err = "source"]

\* lines 162-169 throw a TypeError; nothing catches it
afterTypeError(call, n) == [call EXCEPT !.pc = "failed", !.err = "TypeError"]

\* lines 146-173: the value the returned promise is fulfilled with (the
\* function has no return statement)
dynamicResolveResult(template) == Undef

\* a call that never stores its template
settleNever(call, instance) == instance

\* line 172: this.parsedUsecase = resolvedTemplate, once the loop has ended
settle(call, instance) == IF call.pc = "done" THEN call.template ELSE instance

\* the activation is over: its promise settles and its locals are dead
finish(call) ==
  IF call.pc = "done"
    THEN [call EXCEPT !.result = dynamicResolveResult(call.template), !.template = Undef]
  ELSE IF call.pc = "failed" THEN [call EXCEPT !.template = Undef, !.n0 = 0]
  ELSE call

\* a loop that resumes after the entries the previous call had resolved
iteratorResumes(previous) == Len(previous.written)

\* line 149: every call iterates this.dynamicResolvers anew, from before its
\* first entry, whatever the previous call did
iteratorStart(previous) == 0

\* lines 146-147 and the first turn of the loop
dynamicResolve(c) ==
  /\ calls[c].pc \in {"idle", "done", "failed"}
  /\ \A k \in 1..(c - 1) : calls[k].pc = "awaiting"
  /\ \E h1 \in {Append(heap, [arr |-> FALSE, f |-> SpreadFields(heap, parsedUsecase)])} :
     \E call \in {advance([NoCall EXCEPT !.pc = "start", !.template = Ref(Len(h1)),
                                          !.solo = TRUE,
                                          !.fresh = AtStaticStage,
                                          !.n0 = Len(dynamicResolvers),
                                          !.i = iteratorStart(calls[c])],
                           Len(dynamicResolvers))} :
     \E ended \in {call.pc = "done"} :
        Commit(h1, settle(call, parsedUsecase),
               [(IF ended THEN Disturbed(calls, c) ELSE calls) EXCEPT ![c] = finish(call)],
               NoGet)
  /\ UNCHANGED <<schemaTree, dynamicResolvers, lastStatic, skel, staticStage, applied,
                 construction, latest>>

\* lines 155/158-170: the awaited source fulfils with value; the value is
\* written and the loop goes on
sourceResolves(c) ==
  /\ calls[c].pc = "awaiting"
  /\ \E value \in {resolvedValue(c, calls[c].i)} :
     \E w \in {setDynamicValue(heap, calls[c].template,
                                split(dynamicResolvers[calls[c].i].path), value)} :
     \E call \in {IF w.err THEN afterTypeError(calls[c], Len(dynamicResolvers))
                   ELSE advance([calls[c] EXCEPT !.written = Append(@, value)],
                                Len(dynamicResolvers))} :
        /\ Commit(w.h, settle(call, parsedUsecase),
                  [(IF w.err THEN calls ELSE Disturbed(calls, c)) EXCEPT ![c] = finish(call)],
                  NoGet)
        /\ latest' = IF w.err THEN latest
                      ELSE TreePut(latest, split(dynamicResolvers[calls[c].i].path),
                                   Prim(value))
  /\ UNCHANGED <<schemaTree, dynamicResolvers, lastStatic, skel, staticStage, applied,
                 construction>>

\* lines 154, 158: the awaited source rejects
sourceRejects(c) ==
  /\ calls[c].pc = "awaiting"
  /\ \E call \in {afterRejection([calls[c] EXCEPT !.rejected = calls[c].i],
                                   Len(dynamicResolvers))} :
        Commit(heap, settle(call, parsedUsecase), [calls EXCEPT ![c] = finish(call)], NoGet)
  /\ UNCHANGED <<schemaTree, dynamicResolvers, lastStatic, skel, staticStage, applied,
                 construction, latest>>

Next ==
  \/ staticResolve
  \/ \E r \in ResolverInputs : addDynamicResolver(r.path, r.resolver)
  \/ \E c \in 1..MaxCalls : dynamicResolve(c)
  \/ \E c \in 1..MaxCalls : sourceResolves(c)
  \/ \E c \in 1..MaxCalls : sourceRejects(c)
  \/ getParsedUsecase

Spec == Init /\ [][Next]_vars

(***************************************************************************)
(* The skeleton builder over a family of schema trees: every combination   *)
(* of kind, constant (none, the empty string, a non-empty string),         *)
(* properties and items, two levels deep.  The overlay is empty.           *)
(***************************************************************************)
Kinds == {"object", "array", "string"}
Consts == {<<>>, <<Str("")>>, <<Str("k")>>}
LeafNodes == {Leaf("string"), ConstLeaf("string", "k"), ConstLeaf("object", "")}
InnerNodes ==
  {Node(t, c, p, i, <<>>, <<>>) :
     t \in Kinds, c \in Consts,
     p \in {<<>>} \cup {<<[a |-> n]>> : n \in LeafNodes},
     i \in {<<>>} \cup {<<n>> : n \in LeafNodes}}
SchemaFamily ==
  InnerNodes
  \cup {Node(t, c, <<[a |-> n, b |-> Leaf("string")]>>, <<>>, <<>>, <<>>) :
          t \in {"object", "string"}, c \in {<<>>, <<Str("k")>>}, n \in InnerNodes}
  \cup {Node(t, c, <<>>, <<n>>, <<>>, <<>>) :
          t \in {"array", "object"}, c \in {<<>>, <<Str("")>>}, n \in InnerNodes}

InitBuild == \E schema \in SchemaFamily : Constructed(schema, <<>>)
NextBuild == staticResolve
SpecBuild == InitBuild /\ [][NextBuild]_vars

(***************************************************************************)
(* The overlay applier on its own: the skeleton of line 134 is in place    *)
(* and lines 135-136 are run, once and again.  The overlays hold scalar    *)
(* and nested values at addresses that are prefixes of one another, in     *)
(* either order.                                                           *)
(***************************************************************************)
MaxApply == 2

OverlayEntries ==
  {[path |-> <<"a">>, value |-> TStr("s")],
   [path |-> <<"a">>, value |-> TObj([b |-> TStr("s")])],
   [path |-> <<"a", ".", "b">>, value |-> TStr("s")],
   [path |-> <<"a", ".", "c">>, value |-> TStr("t")],
   [path |-> <<"a", ".", "c">>, value |-> TObj([b |-> TStr("s")])],
   [path |-> <<"a", ".", "c", ".", "b">>, value |-> TStr("t")],
   [path |-> <<"a", ".", "b", ".", "c">>, value |-> TStr("t")]}
OverlayFamily ==
  {<<e>> : e \in OverlayEntries}
  \cup {<<p[1], p[2]>> : p \in {q \in OverlayEntries \X OverlayEntries : q[1].path # q[2].path}}
SkeletonSchemas ==
  {ObjOf(NoFields), SchemaPlain, ObjOf([a |-> ConstLeaf("string", "k")])}

ThrewTree == [t |-> "threw", s |-> "", kids |-> NoFields]

\* the processor between line 134 and line 135 of its first staticResolve
InitOverlay ==
  \E schema \in SkeletonSchemas : \E overlay \in OverlayFamily :
    LET sc == AllocSchema(<<>>, schema)
        sd == loadYamlFile(sc.h, overlay)
        b == processSchemaWithConst(sd.h, sc.v)
    IN /\ heap = b.h
       /\ usecaseSchema = sc.v
       /\ schemaTree = schema
       /\ staticData = sd.data
       /\ parsedUsecase = b.v
       /\ dynamicResolvers = <<>>
       /\ calls = [c \in 1..MaxCalls |-> NoCall]
       /\ lastStatic = "none"
       /\ lastGet = NoGet
       /\ skel = DeepVal(b.h, b.v)
       /\ staticStage = TUndef
       /\ applied = <<>>
       /\ construction = Built(overlay)
       /\ latest = TObj(NoFields)

\* lines 135-136: this.parsedUsecase = this.applyYamlValues()
applyOverlay ==
  /\ Len(applied) < MaxApply
  /\ \E y \in {applyYamlValues(heap, parsedUsecase, staticData)} :
       /\ Commit(y.h, IF y.err THEN parsedUsecase ELSE y.v, calls, NoGet)
       /\ applied' = Append(applied, IF y.err THEN ThrewTree ELSE DeepVal(y.h, y.v))
  /\ UNCHANGED <<schemaTree, dynamicResolvers, lastStatic, skel, staticStage, construction,
                 latest>>

NextOverlay == applyOverlay
SpecOverlay == InitOverlay /\ [][NextOverlay]_vars

(***************************************************************************)
(* Properties.                                                             *)
(***************************************************************************)
AddrDepth == 2

Instance == DeepVal(heap, parsedUsecase)
IsPrefix(p, q) == Len(p) <= Len(q) /\ SubSeq(q, 1, Len(p)) = p
\* the segments of the address of registry entry j
parts(j) == split(dynamicResolvers[j].path)
\* no entry after j, among the first n, writes at the address of j or above it
LastAt(j, n) == \A k \in (j + 1)..n : ~IsPrefix(parts(k), parts(j))

\* tv with the addresses of the first n entries replaced, in registration
\* order, by the values activation c wrote
RECURSIVE Replaced(_, _, _)
Replaced(tv, c, n) ==
  IF n = 0 THEN tv
  ELSE TreePut(Replaced(tv, c, n - 1), parts(n), Prim(calls[c].written[n]))

\* C1: when dynamicResolve fails because the source of entry k fails, the
\* instance afterwards holds, at its address, the value written by every entry
\* registered before k, whatever the depth of the address.
C1_WrittenValuesSurviveFailure ==
  \A c \in 1..MaxCalls :
    (calls[c].pc = "failed" /\ calls[c].err = "source" /\ calls[c].solo) =>
      \A j \in 1..Len(calls[c].written) :
        LastAt(j, Len(calls[c].written)) =>
          TreeAt(Instance, parts(j)) = Prim(calls[c].written[j])

\* C2: when the source of entry k rejects, the call fails with that rejection,
\* the source of no entry after k has been invoked by the call, and the
\* source of k was invoked once.
C2_RejectionEndsTheCall ==
  \A c \in 1..MaxCalls :
    calls[c].rejected # 0 =>
      /\ calls[c].pc = "failed"
      /\ calls[c].err = "source"
      /\ calls[c].invoked = [j \in 1..calls[c].rejected |-> j]
      /\ calls[c].result = Undef

C2_Witness ==
  \E c \in 1..MaxCalls :
    /\ calls[c].rejected # 0
    /\ calls[c].rejected < Len(dynamicResolvers)

\* C3: when two entries target the same address and the call succeeds, the
\* value at that address after the call is the one the later entry resolved
\* to, however the completions of the sources interleave with other steps.
C3_LaterEntryWins ==
  \A c \in 1..MaxCalls :
    (calls[c].pc = "done" /\ calls[c].solo) =>
      \A i, j \in 1..Len(calls[c].written) :
        (i < j /\ parts(i) = parts(j) /\ LastAt(j, Len(calls[c].written))) =>
          TreeAt(Instance, parts(j)) = Prim(calls[c].written[j])

C3_Witness ==
  \E c \in 1..MaxCalls :
    /\ calls[c].pc = "done"
    /\ calls[c].solo
    /\ Len(calls[c].written) = 2
    /\ parts(1) = parts(2)
    /\ calls[c].written[1] # calls[c].written[2]
    /\ TreeAt(Instance, parts(2)) = Prim(calls[c].written[2])

\* C4: within one call the sources are invoked in registration order and one
\* at a time: the source of entry i+1 is invoked only once the value of entry
\* i is written into the template, so at most one source is pending.
C4_OneSourceAtATime ==
  \A c \in 1..MaxCalls :
    calls[c].pc # "idle" =>
      /\ calls[c].invoked = [j \in 1..Len(calls[c].invoked) |-> j]
      /\ calls[c].i = Len(calls[c].invoked)
      /\ Len(calls[c].written) =
           IF calls[c].pc = "done" THEN Len(calls[c].invoked)
           ELSE Len(calls[c].invoked) - 1
      /\ (calls[c].pc = "awaiting" /\ calls[c].solo /\ calls[c].i > 1) =>
           TreeAt(DeepVal(heap, calls[c].template), parts(calls[c].i - 1))
             = Prim(calls[c].written[calls[c].i - 1])

C4_Witness ==
  \E c \in 1..MaxCalls :
    /\ calls[c].pc = "awaiting"
    /\ calls[c].solo
    /\ calls[c].i = 2
    /\ Len(calls[c].written) = 1

\* C5: after staticResolve and then a successful dynamicResolve, the instance
\* is the static-stage instance with the addresses of the entries replaced by
\* their resolved values, a static overlay value included; every other
\* address keeps its static-stage value.
C5_DynamicOverStatic ==
  \A c \in 1..MaxCalls :
    (calls[c].pc = "done" /\ calls[c].solo /\ calls[c].fresh) =>
      Instance = Replaced(staticStage, c, Len(calls[c].written))

C5_Witness ==
  \E c \in 1..MaxCalls :
    /\ calls[c].pc = "done" /\ calls[c].solo /\ calls[c].fresh
    /\ \E j \in 1..Len(calls[c].written) :
         /\ TreeAt(staticStage, parts(j)) = TStr("s")
         /\ TreeAt(Instance, parts(j)) = Prim(calls[c].written[j])
    /\ \E j \in 1..Len(calls[c].written) : Len(parts(j)) = 1

C7_ReturnsTheInstance ==
  \A c \in 1..MaxCalls :
    (calls[c].pc = "done" /\ calls[c].solo) => calls[c].result = parsedUsecase

\* C8: applying the overlay to the result of a first application yields the
\* same instance as the first application alone.
C8_OverlayIdempotent ==
  (Len(applied) >= 2 /\ applied[1] # ThrewTree) => applied[2] = applied[1]

(***************************************************************************)
(* Schema nodes and their addresses.                                       *)
(***************************************************************************)
SegmentNames == {"a", "b", "0"}
Addresses == UNION {[1..n -> SegmentNames] : n \in 0..AddrDepth}

\* the node below n at segment k: property k, or the items for "0"
ChildOf(n, k) ==
  IF k = "0" THEN n.items
  ELSE IF Len(n.properties) = 1 /\ k \in DOMAIN n.properties[1]
    THEN <<n.properties[1][k]>> ELSE <<>>

RECURSIVE NodeAt(_, _)
NodeAt(n, addr) ==
  IF addr = <<>> THEN <<n>>
  ELSE IF Len(ChildOf(n, Head(addr))) = 0 THEN <<>>
  ELSE NodeAt(ChildOf(n, Head(addr))[1], Tail(addr))

\* n has no constant and its kind matches the attribute that leads to k
Opens(n, k) ==
  /\ Len(n.const) = 0
  /\ IF k = "0" THEN n.type = "array" /\ Len(n.items) = 1
     ELSE n.type = "object" /\ Len(n.properties) = 1

\* every node above addr opens the way to the next
RECURSIVE OpenTo(_, _)
OpenTo(n, addr) ==
  \/ addr = <<>>
  \/ /\ Len(ChildOf(n, Head(addr))) = 1
     /\ Opens(n, Head(addr))
     /\ OpenTo(ChildOf(n, Head(addr))[1], Tail(addr))

\* tv is what the skeleton holds for node n
Holds(n, tv) ==
  IF Len(n.const) = 1 THEN tv = Prim(n.const[1])
  ELSE IF n.type = "object" /\ Len(n.properties) = 1
    THEN tv.t = "obj" /\ DOMAIN tv.kids = DOMAIN n.properties[1]
  ELSE IF n.type = "array" /\ Len(n.items) = 1
    THEN tv.t = "arr" /\ DOMAIN tv.kids = {"0"}
  ELSE tv.t = "obj" /\ "type" \in DOMAIN tv.kids /\ tv.kids["type"] = TStr(n.type)

\* C9 (as claimed): in the skeleton of any schema tree, the constant of every
\* node N is at N's address.
C9_ConstAtEveryNode ==
  lastStatic = "ok" =>
    \A addr \in Addresses :
      (Len(NodeAt(schemaTree, addr)) = 1 /\ Len(NodeAt(schemaTree, addr)[1].const) = 1) =>
        TreeAt(skel, addr) = Prim(NodeAt(schemaTree, addr)[1].const[1])

\* C9 (amended): the constant of node N is at N's address, whatever else N
\* declares and also when it is the empty string, provided no node above N
\* carries a constant and every node above N is an object with properties or
\* an array with items.
C9_ConstAtOpenNode ==
  lastStatic = "ok" =>
    \A addr \in Addresses :
      (/\ Len(NodeAt(schemaTree, addr)) = 1
       /\ Len(NodeAt(schemaTree, addr)[1].const) = 1
       /\ OpenTo(schemaTree, addr)) =>
        TreeAt(skel, addr) = Prim(NodeAt(schemaTree, addr)[1].const[1])

C9_Witness ==
  /\ lastStatic = "ok"
  /\ \E addr \in Addresses :
       /\ Len(addr) > 0
       /\ Len(NodeAt(schemaTree, addr)) = 1
       /\ OpenTo(schemaTree, addr)
       /\ NodeAt(schemaTree, addr)[1].const = <<Str("")>>
       /\ Len(NodeAt(schemaTree, addr)[1].properties) = 1
       /\ TreeAt(skel, addr) = TStr("")

\* C10 (as claimed): every node reachable from the root by properties/items
\* is in the skeleton at the corresponding address.
C10_EveryNodeInSkeleton ==
  lastStatic = "ok" =>
    \A addr \in Addresses :
      Len(NodeAt(schemaTree, addr)) = 1 =>
        Holds(NodeAt(schemaTree, addr)[1], TreeAt(skel, addr))

\* C10 (amended): every node reachable from the root through nodes that carry
\* no constant and whose kind matches the attribute followed (object for
\* properties, array for items) is in the skeleton at the corresponding
\* address.
C10_EveryOpenNodeInSkeleton ==
  lastStatic = "ok" =>
    \A addr \in Addresses :
      (Len(NodeAt(schemaTree, addr)) = 1 /\ OpenTo(schemaTree, addr)) =>
        Holds(NodeAt(schemaTree, addr)[1], TreeAt(skel, addr))

C10_Witness ==
  /\ lastStatic = "ok"
  /\ \E addr \in Addresses :
       /\ Len(addr) = 2
       /\ addr[1] = "0"
       /\ Len(NodeAt(schemaTree, addr)) = 1
       /\ OpenTo(schemaTree, addr)
       /\ Holds(NodeAt(schemaTree, addr)[1], TreeAt(skel, addr))

(***************************************************************************)
(* The whole pipeline over schemas whose node a has neither a constant nor *)
(* a matching properties/items attribute, one for each declared kind: the  *)
(* builder leaves a placeholder descriptor at a (lines 97-107).  One       *)
(* activation of dynamicResolve at a time.                                 *)
(***************************************************************************)
PlaceholderKinds ==
  {Leaf("string"), Leaf("number"), Leaf("boolean"), Leaf("array"), Leaf("object"),
   Node("object", <<>>, <<>>, <<>>, <<>>, <<Bool("false")>>)}
GateSchemas == {ObjOf([a |-> n, b |-> Leaf("string")]) : n \in PlaceholderKinds}
OverlayLeaf == <<[path |-> <<"b">>, value |-> TStr("s")]>>

InitGate == \E schema \in GateSchemas : Constructed(schema, OverlayLeaf)
NextGate ==
  \/ staticResolve
  \/ \E r \in ResolverInputs : addDynamicResolver(r.path, r.resolver)
  \/ dynamicResolve(1)
  \/ sourceResolves(1)
  \/ getParsedUsecase
SpecGate == InitGate /\ [][NextGate]_vars

\* the builder returns a placeholder descriptor for n
IsPlaceholderNode(n) ==
  /\ Len(n.const) = 0
  /\ ~(n.type = "object" /\ Len(n.properties) = 1)
  /\ ~(n.type = "array" /\ Len(n.items) = 1)

\* the descriptor the builder left at addr is still there, untouched
PlaceholderAt(addr) ==
  /\ Len(NodeAt(schemaTree, addr)) = 1
  /\ OpenTo(schemaTree, addr)
  /\ IsPlaceholderNode(NodeAt(schemaTree, addr)[1])
  /\ skel # TUndef
  /\ TreeAt(Instance, addr) = TreeAt(skel, addr)

\* C11: after staticResolve and dynamicResolve, if a placeholder descriptor
\* remains at an address nothing filled, getParsedUsecase throws the invalid-
\* instance error, whatever the declared kind of the node.
C11_PlaceholderFailsValidation ==
  (/\ lastStatic = "ok"
   /\ \E c \in 1..MaxCalls : calls[c].pc = "done"
   /\ lastGet.st # "none"
   /\ \E addr \in Addresses : PlaceholderAt(addr)) =>
    lastGet.st = "threw"

(***************************************************************************)
(* Construction as a step (lines 41-53): the overlay source is read and    *)
(* parsed, or reading or parsing it throws.                                *)
(***************************************************************************)
\* what fs.readFileSync and yaml.load do with the file at the path: they
\* yield a mapping, or one of them throws an error with a message
OverlaySources ==
  {[st |-> "loaded", message |-> "", overlay |-> o] :
     o \in {OverlayFlat, OverlayNested, OverlayPartial}}
  \cup {[st |-> "threw", message |-> m, overlay |-> <<>>] :
          m \in {"File not found", "ENOENT: no such file or directory",
                 "bad indentation of a mapping entry"}}

\* a loader that lets the underlying error through as it is
loadYamlFileRethrows(cause) == cause

\* line 73: the message of the error loadYamlFile throws
loadYamlFileMessage(cause) == "Error loading YAML file: " \o cause

\* lines 69-74
loadYamlFileOutcome(file) ==
  IF file.st = "threw"
    THEN [err |-> TRUE, message |-> loadYamlFileMessage(file.message), overlay |-> <<>>]
    ELSE [err |-> FALSE, message |-> "", overlay |-> file.overlay]

Pending == [st |-> "pending", message |-> "", cause |-> "", overlay |-> <<>>]

\* before new BecknProcessor(...): the caller holds a schema, no processor
InitConstruct ==
  /\ schemaTree \in {SchemaPlain, SchemaRequired}
  /\ heap = <<>>
  /\ usecaseSchema = Undef
  /\ staticData = <<>>
  /\ parsedUsecase = Undef
  /\ dynamicResolvers = <<>>
  /\ calls = [c \in 1..MaxCalls |-> NoCall]
  /\ lastStatic = "none"
  /\ lastGet = NoGet
  /\ skel = TUndef
  /\ staticStage = TUndef
  /\ applied = <<>>
  /\ construction = Pending
  /\ latest = TObj(NoFields)

\* new BecknProcessor(staticValuePath, usecaseSchema) (lines 41-53); when
\* line 52 throws, the new expression yields no processor
construct(file) ==
  /\ construction.st = "pending"
  /\ \E r \in {loadYamlFileOutcome(file)} :
       IF r.err
         THEN /\ construction' = [st |-> "threw", message |-> r.message,
                                  cause |-> file.message, overlay |-> <<>>]
              /\ UNCHANGED <<heap, usecaseSchema, staticData, parsedUsecase>>
         ELSE \E fs \in {Fields(schemaTree, r.overlay)} :
                /\ heap' = fs.heap
                /\ usecaseSchema' = fs.usecaseSchema
                /\ staticData' = fs.staticData
                /\ parsedUsecase' = fs.parsedUsecase
                /\ construction' = Built(r.overlay)
  /\ UNCHANGED <<schemaTree, dynamicResolvers, calls, lastStatic, lastGet, skel,
                 staticStage, applied, latest>>

\* the operations need a processor to be invoked on
NextConstruct ==
  \/ \E file \in OverlaySources : construct(file)
  \/ construction.st = "built" /\ NextGate
SpecConstruct == InitConstruct /\ [][NextConstruct]_vars

\* C12: when loading the overlay source fails, construction throws one error,
\* 'Error loading YAML file: ' followed by the cause's message, and there is
\* no processor: none of its fields exists and no operation has run.
C12_LoadFailureFailsConstruction ==
  construction.st = "threw" =>
    /\ construction.message = "Error loading YAML file: " \o construction.cause
    /\ heap = <<>> /\ parsedUsecase = Undef /\ staticData = <<>>
    /\ dynamicResolvers = <<>>
    /\ \A c \in 1..MaxCalls : calls[c] = NoCall
    /\ lastStatic = "none" /\ lastGet = NoGet

C12_Witness ==
  /\ construction.st = "threw"
  /\ construction.cause = "File not found"
  /\ construction.message = "Error loading YAML file: File not found"

(***************************************************************************)
(* Addresses that are empty or hold an empty segment, in the overlay and   *)
(* in the registry.                                                        *)
(***************************************************************************)
\* "", "a..b", ".a", "a."
MalformedPaths == {<<>>, <<"a", ".", ".", "b">>, <<".", "a">>, <<"a", ".">>}
MalformedOverlays == {<<[path |-> p, value |-> TStr("s")]>> : p \in MalformedPaths}

InitAddress ==
  \E schema \in {ObjOf(NoFields), SchemaPlain} : \E overlay \in MalformedOverlays :
    Constructed(schema, overlay)
NextAddress ==
  \/ staticResolve
  \/ \E p \in MalformedPaths : addDynamicResolver(p, "function")
  \/ dynamicResolve(1)
  \/ sourceResolves(1)
SpecAddress == InitAddress /\ [][NextAddress]_vars

Malformed(path) == \E k \in 1..Len(split(path)) : split(path)[k] = ""

RECURSIVE HasEmptyKey(_)
HasEmptyKey(tv) ==
  /\ IsContainer(tv)
  /\ \/ "" \in DOMAIN tv.kids
     \/ \E k \in DOMAIN tv.kids : HasEmptyKey(tv.kids[k])

\* C13: an address that is empty or holds an empty segment is rejected: it is
\* never registered by addDynamicResolver, an overlay that holds one is not
\* applied, and no value is ever under an empty-string key of the instance.
C13_MalformedAddressRejected ==
  /\ \A j \in 1..Len(dynamicResolvers) : ~Malformed(dynamicResolvers[j].path)
  /\ (\E j \in 1..Len(staticData) : Malformed(staticData[j].path)) => lastStatic # "ok"
  /\ ~HasEmptyKey(Instance)

\* C14: dynamicResolve writes a resolved value with intermediate creation:
\* a call never raises because a key on the way to the address is absent
\* from the instance.  (The registered addresses pass through containers or
\* absent keys only, so a TypeError of lines 165-169 is such a raise.)
C14_DynamicWriteCreatesIntermediates ==
  \A c \in 1..MaxCalls :
    ~(/\ calls[c].pc = "failed"
      /\ calls[c].err = "TypeError"
      /\ Len(parts(calls[c].i)) > 1)

\* the segments of the address of overlay entry j
overlayParts(j) == split(staticData[j].path)

\* what the skeleton holds at q is absent, a scalar, or the placeholder
\* descriptor of a scalar leaf
NotAContainerAt(q) ==
  \/ ~IsContainer(TreeAt(skel, q))
  \/ /\ Len(NodeAt(schemaTree, q)) = 1
     /\ OpenTo(schemaTree, q)
     /\ IsPlaceholderNode(NodeAt(schemaTree, q)[1])
     /\ NodeAt(schemaTree, q)[1].type \notin {"object", "array"}

\* the keys the overlay writes directly below q
WrittenBelow(q) ==
  {overlayParts(j)[Len(q) + 1] :
     j \in {k \in 1..Len(staticData) :
              IsPrefix(q, overlayParts(k)) /\ Len(overlayParts(k)) > Len(q)}}

\* C15: applying the overlay never raises, and an intermediate of an overlay
\* address that is absent or not a container in the skeleton (and that no
\* overlay entry sets itself) is afterwards a fresh container holding only the
\* keys the overlay wrote.
C15_OverlayReplacesIntermediates ==
  Len(applied) >= 1 =>
    /\ applied[1] # ThrewTree
    /\ \A j \in 1..Len(staticData) : \A n \in 1..(Len(overlayParts(j)) - 1) :
         LET q == SubSeq(overlayParts(j), 1, n)
         IN (/\ NotAContainerAt(q)
             /\ \A k \in 1..Len(staticData) : ~IsPrefix(overlayParts(k), q)) =>
              /\ TreeAt(applied[1], q).t = "obj"
              /\ DOMAIN TreeAt(applied[1], q).kids = WrittenBelow(q)

\* C16: after any sequence of operations the schema and the static overlay
\* the processor was constructed with are equal to what they were at
\* construction, nested overlay values included.
C16_InputsNeverMutated ==
  /\ LET sc == AllocSchema(<<>>, schemaTree)
     IN DeepVal(heap, usecaseSchema) = DeepVal(sc.h, sc.v)
  /\ [j \in 1..Len(staticData) |->
        [path |-> staticData[j].path, value |-> DeepVal(heap, staticData[j].value)]]
       = construction.overlay

\* the skeleton of the schema with the overlay applied, computed from the
\* inputs as they were at construction
FirstStatic ==
  LET fs == Fields(schemaTree, construction.overlay)
      b == processSchemaWithConst(fs.heap, fs.usecaseSchema)
      y == applyYamlValues(b.h, b.v, fs.staticData)
  IN DeepVal(y.h, y.v)

\* C17: after any sequence of earlier operations, the instance right after a
\* staticResolve is the skeleton of the schema with the overlay applied, the
\* one the first staticResolve produced; no dynamic value survives.
C17_StaticResolveRebuilds ==
  lastStatic # "none" => (lastStatic = "ok" /\ staticStage = FirstStatic)

\* C18: the registry only grows and its entries carry no marking; a call
\* that starts, whatever the slot's previous call did, invokes the source of
\* the first entry; a call that ends has invoked the sources of all entries
\* in order, up to the one that failed or to the end of the registry.
C18_EveryCallRunsTheRegistry ==
  [][/\ IsPrefix(dynamicResolvers, dynamicResolvers')
     /\ \A c \in 1..MaxCalls :
          /\ (calls[c].pc \in {"idle", "done", "failed"} /\ calls'[c].pc = "awaiting") =>
               (calls'[c].invoked = <<1>> /\ calls'[c].i = 1)
          /\ (calls[c].pc = "awaiting" /\ calls'[c].pc = "done") =>
               calls'[c].invoked = [j \in 1..Len(dynamicResolvers') |-> j]
          /\ (calls[c].pc = "awaiting" /\ calls'[c].pc = "failed") =>
               calls'[c].invoked = [j \in 1..calls[c].i |-> j]]_vars

\* a call is awaiting the source of entry 1 although the instance already
\* holds, at entry 1's top-level address, the value an earlier call on the
\* same slot resolved and stored at its end
C18_Witness ==
  /\ calls[1].pc = "awaiting"
  /\ calls[1].i = 1
  /\ parts(1) = <<"b">>
  /\ TreeAt(Instance, <<"b">>) = Prim(resolvedValue(1, 1))

(***************************************************************************)
(* Overlapping calls: a caller that builds the instance at most once,      *)
(* before any call, registers sources that all fulfil at addresses that    *)
(* can be written, and starts a second dynamicResolve while the first is   *)
(* suspended at line 155 or 158.                                           *)
(***************************************************************************)
OverlapResolvers ==
  {[path |-> <<"b">>, resolver |-> "function"],
   [path |-> <<"a", ".", "b">>, resolver |-> "url"]}

InitOverlap == Init

NextOverlap ==
  \/ (\A c \in 1..MaxCalls : calls[c].pc = "idle") /\ staticResolve
  \/ \E r \in OverlapResolvers : addDynamicResolver(r.path, r.resolver)
  \/ \E c \in 1..MaxCalls : dynamicResolve(c)
  \/ \E c \in 1..MaxCalls : sourceResolves(c)
SpecOverlap == InitOverlap /\ [][NextOverlap]_vars

\* both calls have completed and the second started while the first was
\* suspended
BothCompleted == \A c \in 1..MaxCalls : calls[c].pc = "done"

\* C19: once two overlapping calls have both completed, no value either of
\* them wrote is lost: at every address the calls wrote, the top-level ones
\* included, the instance holds the value that was written there last.
C19_OverlappingCallsKeepAllWrites ==
  BothCompleted =>
    \A j \in 1..Len(dynamicResolvers) :
      (\E c \in 1..MaxCalls : j <= Len(calls[c].written)) =>
        TreeAt(Instance, parts(j)) = TreeAt(latest, parts(j))

\* C20: an entry appended while a call is in flight, before the call has
\* finished its last entry, is resolved by that call: the call does not end
\* before it has written a value for every entry of the registry, and it
\* invokes each source only after the entries before it are written.
C20_AddedInFlightIsResolved ==
  [][\A c \in 1..MaxCalls :
       (calls[c].pc = "awaiting" /\ Len(dynamicResolvers) > calls[c].n0) =>
         /\ calls'[c].pc = "done" =>
              /\ Len(calls'[c].written) = Len(dynamicResolvers)
              /\ calls'[c].invoked = [j \in 1..Len(dynamicResolvers) |-> j]
         /\ (calls'[c].pc = "awaiting" /\ calls'[c].i # calls[c].i) =>
              /\ calls'[c].i = calls[c].i + 1
              /\ Len(calls'[c].written) = calls[c].i]_vars

\* a call has ended after resolving more entries than the registry held
\* when it started
C20_Witness ==
  \E c \in 1..MaxCalls :
    /\ calls[c].pc = "done"
    /\ calls[c].n0 >= 1
    /\ Len(calls[c].written) > calls[c].n0

====
